---------------------------- MODULE Spec2Model ----------------------------
(***************************************************************************)
(* mpegts-finder (src/src/main.rs): the three subcommands hash, cut and    *)
(* match, run in the order of the tool's data flow: `hash` scans a video   *)
(* into its segment index, `cut` copies a byte range of the video into a   *)
(* clip, `match` scans the clip and looks it up in the index.              *)
(*                                                                         *)
(* Files are sequences of bytes (0..255).  Position p of a file (0-based,  *)
(* as in the source) is element p+1 of its sequence.                       *)
(***************************************************************************)
EXTENDS Integers, Sequences, FiniteSets, TLC

(***************************************************************************)
(* Bounds of the model                                                     *)
(***************************************************************************)
\* a video is the concatenation of at most MaxPieces pieces (packets, garbage)
MaxPieces == 3

(***************************************************************************)
(* Program constants                                                       *)
(***************************************************************************)
PACKET_SIZE == 188
BUFFER_SIZE == 188 * 8
SYNC_BYTE   == 71          \* 0x47

\* Option<T>: None is the empty sequence, Some(v) the sequence <<v>>
None       == << >>
Some(v)    == << v >>
is_some(o) == Len(o) = 1
unwrap(o)  == o[1]

Min(a, b) == IF a <= b THEN a ELSE b

(***************************************************************************)
(* Machine integers.  usize and u64 are 64 bits wide in the program; TLC's *)
(* integers end at 2^31 - 1, so the model's word is 2^30: every length and *)
(* offset of the model is below 2^14, hence a wrapped difference is, as in *)
(* the program, larger than every length and offset that occurs.           *)
(***************************************************************************)
WordModulus == 2^30

\* a - b on unsigned words when the subtraction is not overflow-checked
wrapping_sub(a, b) == (a - b + WordModulus) % WordModulus

\* x & y on unsigned integers, bit by bit from the lowest
BitAndOf[x \in Nat, y \in Nat] ==
    IF x = 0 \/ y = 0 THEN 0
    ELSE (IF x % 2 = 1 /\ y % 2 = 1 THEN 1 ELSE 0) + 2 * BitAndOf[x \div 2, y \div 2]

BitAnd(x, y) == BitAndOf[x, y]

(***************************************************************************)
(* std::collections::hash_map::DefaultHasher.  The library's 64-bit        *)
(* SipHash is replaced by a polynomial digest of the same interface: a     *)
(* deterministic, order-sensitive fold of the u16 values written, with a   *)
(* range small enough for TLC's integers.                                  *)
(***************************************************************************)
HashModulus == 2^20
HashFactor  == 2^10 + 7

DefaultHasher_new == 0
write_u16(h, v)   == (h * HashFactor + v + 1) % HashModulus
finish(h)         == h

(***************************************************************************)
(* MpegtsHeader::new on the 4 bytes read at the cursor.                    *)
(* u32::from_be_bytes(buf) is kept as its top byte and its low 24 bits:    *)
(* header & 0xff000000 == 0x47000000 holds iff the top byte is 0x47.       *)
(***************************************************************************)
header_low24(b)  == b[2] * 65536 + b[3] * 256 + b[4]
header_sync(b)   == b[1] = SYNC_BYTE
header_is_start(b) == BitAnd(header_low24(b), 4194304) # 0       \* 0x400000
\* the PID cut to 12 bits
header_pid_12_bits(b) == BitAnd(header_low24(b), 1048320) \div 256  \* 0x0fff00

header_pid(b)    == BitAnd(header_low24(b), 2096896) \div 256    \* (header & 0x1fff00) >> 8

\* Ok(Self { is_start, pid })
MpegtsHeader_new(b) == [is_start |-> header_is_start(b), pid |-> header_pid(b)]

(***************************************************************************)
(* Input files                                                             *)
(***************************************************************************)
Fill(n, byte) == [i \in 1..n |-> byte]
Packet(b1, b2, fill) == <<SYNC_BYTE, b1, b2, 16>> \o Fill(PACKET_SIZE - 4, fill)

PieceKinds == {"PAT_A", "PAT_B", "PES", "PAT_CONT", "NUL", "G1", "TRUNC", "BIG"}

Piece(k) ==
    CASE k = "PAT_A"    -> Packet(64, 0, 255)      \* pid 0, start; payload 0xff
      [] k = "PAT_B"    -> Packet(64, 0, 71)       \* pid 0, start; payload 0x47
      [] k = "PES"      -> Packet(65, 0, 255)      \* pid 256, start
      [] k = "PAT_CONT" -> Packet(0, 0, 255)       \* pid 0, no start
      [] k = "NUL"      -> Packet(31, 255, 255)    \* pid 8191, no start
      [] k = "G1"       -> <<255>>                 \* one byte of garbage
      [] k = "TRUNC"    -> <<SYNC_BYTE, 64, 0>>    \* a sync byte and 2 bytes
      [] k = "BIG"      -> Fill(BUFFER_SIZE, 255)  \* a whole chunk of garbage

PieceBytes == [k \in PieceKinds |-> Piece(k)]

RECURSIVE Concat(_)
Concat(ks) == IF ks = << >> THEN << >> ELSE PieceBytes[Head(ks)] \o Concat(Tail(ks))

PieceSeqs == UNION {[1..n -> PieceKinds] : n \in 0..MaxPieces}

VARIABLES
    pc,                   \* "hash", "cut", "clip", "match", "done"
    video,                \* bytes of the video file
    clip,                 \* bytes of the clip (the output file of cut)
    pos,                  \* do_hash: stream position of `file`
    hasher,               \* do_hash: hasher
    prev_segment_offset,  \* do_hash: prev_segment_offset
    segments,             \* do_hash: segments
    header,               \* do_hash: the header MpegtsHeader::new returned last
    hashes,               \* the index written by hash: segments of the video
    cut_from, cut_to,     \* arguments of the last cut
    report,               \* lines printed by match
    outcome               \* how each command ended

vars == <<pc, video, clip, pos, hasher, prev_segment_offset, segments, header,
          hashes, cut_from, cut_to, report, outcome>>

(***************************************************************************)
(* Init: a video is chosen; the locals of do_hash are as constructed.      *)
(***************************************************************************)
NotRun == [hash |-> "none", cut |-> "none", match |-> "none"]

Init ==
    /\ pc = "hash"
    /\ \E ks \in PieceSeqs : video = Concat(ks)
    /\ clip = << >>
    /\ pos = 0
    /\ hasher = DefaultHasher_new
    /\ prev_segment_offset = None
    /\ segments = << >>
    /\ header = None
    /\ hashes = << >>
    /\ cut_from = 0
    /\ cut_to = None
    /\ report = << >>
    /\ outcome = NotRun

(***************************************************************************)
(* do_hash: one iteration of the scan loop over the bytes f.               *)
(***************************************************************************)
\* file.read(&mut buf): the number of bytes a chunk read returns at pos
read_len(f) == IF pos >= Len(f) THEN 0 ELSE Min(BUFFER_SIZE, Len(f) - pos)

\* got.iter().position(|b| *b == 0x47): the first 0-based place of 0x47 in
\* the chunk got = buf[0..read], if there is one
is_sync(f, p) == f[pos + p + 1] = SYNC_BYTE
has_sync(f)   == \E p \in 0..(read_len(f) - 1) : is_sync(f, p)
position(f)   == CHOOSE p \in 0..(read_len(f) - 1) :
                     is_sync(f, p) /\ \A q \in 0..(p - 1) : ~is_sync(f, q)

\* the cursor set to the place in the chunk, not moved relative to the stream
sync_at_in_chunk(f) == position(f)

\* the cursor rewound one byte short
sync_at_one_late(f) == pos + read_len(f) - (read_len(f) - position(f) - 1)

\* the stream position after file.seek_relative(-(read - position))
sync_at(f) == pos + read_len(f) - (read_len(f) - position(f))

\* input.read_exact(&mut buf) of MpegtsHeader::new: the 4 bytes at the cursor
header_bytes(f) == SubSeq(f, sync_at(f) + 1, sync_at(f) + 4)

\* how the iteration ends: "eof", "eof_panic", "no_sync", "read_err",
\* "assert_panic", "packet"
scan_case(f) ==
    IF read_len(f) = 0 THEN (IF is_some(prev_segment_offset) THEN "eof" ELSE "eof_panic")
    ELSE IF ~has_sync(f) THEN "no_sync"
    ELSE IF sync_at(f) + 4 > Len(f) THEN "read_err"
    ELSE IF ~header_sync(header_bytes(f)) THEN "assert_panic"
    ELSE "packet"

\* a boundary declared for every packet of pid 0
is_boundary_pid_only(f) == header_pid(header_bytes(f)) = 0

\* a boundary declared for every packet that has the start flag
is_boundary_start_only(f) == header_is_start(header_bytes(f))

is_boundary(f) == header_pid(header_bytes(f)) = 0 /\ header_is_start(header_bytes(f))

\* the offset taken from the place in the chunk, not from the stream position
boundary_offset_in_chunk(f) == position(f)

\* file.stream_position()? - 4 after the header was read
boundary_offset(f) == (sync_at(f) + 4) - 4

\* the assignments of one iteration that goes on with the loop
ScanContinue(f) ==
    \/ /\ scan_case(f) = "no_sync"
       /\ pos' = pos + read_len(f)
       /\ UNCHANGED <<hasher, prev_segment_offset, segments, header>>
    \/ /\ scan_case(f) = "packet"
       /\ header' = Some(MpegtsHeader_new(header_bytes(f)))
       /\ IF is_boundary(f)
          THEN /\ IF is_some(prev_segment_offset)
                  THEN /\ segments' = Append(segments,
                                [hash |-> finish(hasher), offset |-> unwrap(prev_segment_offset)])
                       /\ hasher' = write_u16(DefaultHasher_new, header_pid(header_bytes(f)))
                  ELSE /\ segments' = segments
                       /\ hasher' = write_u16(hasher, header_pid(header_bytes(f)))
               /\ prev_segment_offset' = Some(boundary_offset(f))
          ELSE /\ hasher' = write_u16(hasher, header_pid(header_bytes(f)))
               /\ UNCHANGED <<prev_segment_offset, segments>>
       /\ pos' = sync_at(f) + 4 + (PACKET_SIZE - 4)

\* the segment list pushed at EOF
eof_segments == Append(segments, [hash |-> finish(hasher), offset |-> unwrap(prev_segment_offset)])

\* the result of an iteration that leaves the loop
scan_result(f) ==
    CASE scan_case(f) = "eof"          -> "ok"
      [] scan_case(f) = "eof_panic"    -> "panic"
      [] scan_case(f) = "assert_panic" -> "panic"
      [] scan_case(f) = "read_err"     -> "err"

ScanEnds(f) == scan_case(f) \in {"eof", "eof_panic", "assert_panic", "read_err"}

\* a call of do_hash that goes on with the hasher of the call before
ScanReset_keeps_hasher ==
    /\ pos' = 0
    /\ hasher' = hasher
    /\ prev_segment_offset' = None
    /\ segments' = << >>
    /\ header' = None

\* the locals of a fresh call of do_hash
ScanReset ==
    /\ pos' = 0
    /\ hasher' = DefaultHasher_new
    /\ prev_segment_offset' = None
    /\ segments' = << >>
    /\ header' = None

(***************************************************************************)
(* hash <video>                                                            *)
(***************************************************************************)
HashLoop ==
    /\ pc = "hash"
    /\ ScanContinue(video)
    /\ UNCHANGED <<pc, video, clip, hashes, cut_from, cut_to, report, outcome>>

HashReturn ==
    /\ pc = "hash"
    /\ ScanEnds(video)
    /\ outcome' = [outcome EXCEPT !.hash = scan_result(video)]
    /\ hashes' = IF scan_case(video) = "eof" THEN eof_segments ELSE << >>
    /\ segments' = IF scan_case(video) = "eof" THEN eof_segments ELSE segments
    /\ pc' = "cut"
    /\ UNCHANGED <<video, clip, pos, hasher, prev_segment_offset, header,
                   cut_from, cut_to, report>>

(***************************************************************************)
(* cut --from <from> [--to <to>] <video> <output>                          *)
(***************************************************************************)
\* bytes [a, b) of f, as far as f has them
Bytes(f, a, b) == SubSeq(f, a + 1, Min(b, Len(f)))

\* end - me.from panics when overflow checks are compiled in and end < from
cut_panics(from, to, overflow_checks) == is_some(to) /\ unwrap(to) < from /\ overflow_checks

\* file.take(end - me.from): the limit of the reader
take_limit(from, to) == wrapping_sub(unwrap(to), from)

\* what std::io::copy writes to the output after file.seek(Start(from))
copied(f, from, to) ==
    IF is_some(to) THEN Bytes(f, from, from + take_limit(from, to))
    ELSE Bytes(f, from, Len(f))

\* the offsets offered to cut: the start, the segment offsets, one past the end
CutPoints == {0, Len(video) + 1} \cup {hashes[i].offset : i \in 1..Len(hashes)}

handle_cut(from, to, overflow_checks) ==
    /\ pc = "cut"
    /\ cut_from' = from
    /\ cut_to' = to
    /\ IF cut_panics(from, to, overflow_checks)
       THEN /\ outcome' = [outcome EXCEPT !.cut = "panic"]
            /\ clip' = clip
            /\ pc' = "done"
       ELSE /\ outcome' = [outcome EXCEPT !.cut = "ok"]
            /\ clip' = copied(video, from, to)
            /\ pc' = "clip"
    /\ ScanReset
    /\ UNCHANGED <<video, hashes, report>>

Cut ==
    \E from \in CutPoints, to \in {None} \cup {Some(t) : t \in CutPoints},
       overflow_checks \in BOOLEAN :
        handle_cut(from, to, overflow_checks)

(***************************************************************************)
(* match <hashes> <segment>: do_hash(&me.segment), then the lookup         *)
(***************************************************************************)
ClipLoop ==
    /\ pc = "clip"
    /\ ScanContinue(clip)
    /\ UNCHANGED <<pc, video, clip, hashes, cut_from, cut_to, report, outcome>>

\* do_hash(&me.segment)? fails: handle_match fails with it
ClipFails ==
    /\ pc = "clip"
    /\ scan_case(clip) \in {"eof_panic", "assert_panic", "read_err"}
    /\ outcome' = [outcome EXCEPT !.match = scan_result(clip)]
    /\ pc' = "done"
    /\ UNCHANGED <<video, clip, pos, hasher, prev_segment_offset, segments, header,
                   hashes, cut_from, cut_to, report>>

\* hashes[index] with a 0-based index
hashes_at(index) == hashes[index + 1]

\* Vec::with_capacity(n): a vector of length 0
Vec_with_capacity(n) == << >>

\* read_exact(&mut buffer) at position at of f: Len(buffer) bytes
read_exact(f, at, buffer) == SubSeq(f, at + 1, at + Len(buffer))

\* the index positions whose hash is the needle's, in index order
RECURSIVE hash_matches(_, _)
hash_matches(segment_hash, index) ==
    IF index >= Len(hashes) THEN << >>
    ELSE (IF hashes_at(index).hash = segment_hash THEN <<index>> ELSE << >>)
         \o hash_matches(segment_hash, index + 1)

span_end(index) ==
    IF index + 1 = Len(hashes) THEN Len(video) ELSE hashes_at(index + 1).offset

\* the candidate passes the comparison of the buffers, its length unchecked
survives_no_length(index) ==
    LET segment_length == Len(clip)
        segment_buffer == read_exact(clip, 0, Vec_with_capacity(segment_length))
        start          == hashes_at(index).offset
        buffer         == read_exact(video, start, Vec_with_capacity(segment_length))
    IN  buffer = segment_buffer

\* the candidate passes the length check and the comparison of the buffers
survives(index) ==
    LET segment_length == Len(clip)
        segment_buffer == read_exact(clip, 0, Vec_with_capacity(segment_length))
        start          == hashes_at(index).offset
        buffer         == read_exact(video, start, Vec_with_capacity(segment_length))
    IN  /\ segment_length = span_end(index) - start
        /\ buffer = segment_buffer

RECURSIVE verified(_)
verified(result) ==
    IF result = << >> THEN << >>
    ELSE (IF survives(Head(result)) THEN <<Head(result)>> ELSE << >>)
         \o verified(Tail(result))

\* the first hash match kept when no candidate passes the comparison
disambiguate_falls_back(result) ==
    IF Len(result) > 1
    THEN (IF verified(result) = << >> THEN <<Head(result)>> ELSE verified(result))
    ELSE result

disambiguate(result) == IF Len(result) > 1 THEN verified(result) ELSE result

\* one printed cut suggestion
Line(counter, kind, from, to) == [n |-> counter, kind |-> kind, from |-> from, to |-> to]

\* hashes.len() - k: the value, when the subtraction does not panic
len_minus(k) == wrapping_sub(Len(hashes), k)
len_minus_panics(k, overflow_checks) == overflow_checks /\ Len(hashes) < k

\* the lines printed for one candidate and whether printing them panicked
print_candidate(index, counter, overflow_checks) ==
    LET previous == IF index > 0
                    THEN <<Line(counter, "previous", hashes_at(index - 1).offset,
                                Some(hashes_at(index).offset))>>
                    ELSE << >>
        current  == IF index < len_minus(1)
                    THEN <<Line(counter, "current", hashes_at(index).offset,
                                Some(hashes_at(index + 1).offset))>>
                    ELSE <<Line(counter, "current", hashes_at(index).offset, None)>>
    IN  IF len_minus_panics(2, overflow_checks)
        THEN [lines |-> previous \o current, panic |-> TRUE]
        ELSE IF index < len_minus(2)
        THEN IF index + 2 >= Len(hashes)
             THEN [lines |-> previous \o current, panic |-> TRUE]
             ELSE [lines |-> previous \o current \o
                             <<Line(counter, "next", hashes_at(index + 1).offset,
                                    Some(hashes_at(index + 2).offset))>>,
                   panic |-> FALSE]
        ELSE IF index < len_minus(1)
        THEN [lines |-> previous \o current \o
                        <<Line(counter, "next", hashes_at(index + 1).offset, None)>>,
              panic |-> FALSE]
        ELSE [lines |-> previous \o current, panic |-> FALSE]

\* the loop over the surviving candidates, stopped by the first panic
RECURSIVE print_all(_, _, _)
print_all(result, counter, overflow_checks) ==
    IF result = << >> THEN [lines |-> << >>, panic |-> FALSE]
    ELSE LET one == print_candidate(Head(result), counter + 1, overflow_checks)
         IN  IF one.panic THEN one
             ELSE LET rest == print_all(Tail(result), counter + 1, overflow_checks)
                  IN  [lines |-> one.lines \o rest.lines, panic |-> rest.panic]

NotFound == <<[n |-> 0, kind |-> "not found", from |-> 0, to |-> None]>>

\* the segment count checked off by one
too_many_segments_lax(segment_hashes) == Len(segment_hashes) > 2

\* segment_hashes.len() > 1
too_many_segments(segment_hashes) == Len(segment_hashes) > 1

\* the surviving candidates for the needle's hash
candidates_of(segment_hash) == disambiguate(hash_matches(segment_hash, 0))

\* do_hash(&me.segment)? and the candidates for its first segment
needle_segments == eof_segments
survivors == candidates_of(needle_segments[1].hash)

\* File::open(me.hashes)?: hash has written the index only when it succeeded
index_exists == outcome.hash = "ok"

handle_match(overflow_checks) ==
    /\ pc = "clip"
    /\ scan_case(clip) = "eof"
    /\ segments' = needle_segments
    /\ IF too_many_segments(needle_segments)
       THEN /\ outcome' = [outcome EXCEPT !.match = "panic"]
            /\ report' = report
       ELSE IF ~index_exists
       THEN /\ outcome' = [outcome EXCEPT !.match = "err"]
            /\ report' = report
       ELSE IF survivors = << >>
       THEN /\ outcome' = [outcome EXCEPT !.match = "ok"]
            /\ report' = NotFound
       ELSE LET printed == print_all(survivors, 0, overflow_checks)
            IN  /\ outcome' = [outcome EXCEPT !.match = IF printed.panic THEN "panic" ELSE "ok"]
                /\ report' = printed.lines
    /\ pc' = "done"
    /\ UNCHANGED <<video, clip, pos, hasher, prev_segment_offset, header,
                   hashes, cut_from, cut_to>>

Match == \E overflow_checks \in BOOLEAN : handle_match(overflow_checks)

Next == HashLoop \/ HashReturn \/ Cut \/ ClipLoop \/ ClipFails \/ Match

Spec == Init /\ [][Next]_vars

\* The hash command alone.  A command that runs is not suspended for ever:
\* its loop goes on, and it returns, whenever it can.
HashNext == HashLoop \/ HashReturn

HashSpec == Init /\ [][HashNext]_vars /\ WF_vars(HashNext)

(***************************************************************************)
(* MpegtsHeader::new alone: the call do_hash makes, on a cursor over 4     *)
(* bytes that need not begin with the sync byte.                           *)
(***************************************************************************)
HeaderInputs ==
    {<<b0, b1, b2, b3>> : b0 \in {0, 70, 71, 199}, b1 \in 0..255,
                          b2 \in {0, 2, 255}, b3 \in {0, 16, 255}}

HeaderInit ==
    /\ pc = "header"
    /\ video \in HeaderInputs
    /\ clip = << >>
    /\ pos = 0
    /\ hasher = DefaultHasher_new
    /\ prev_segment_offset = None
    /\ segments = << >>
    /\ header = None
    /\ hashes = << >>
    /\ cut_from = 0
    /\ cut_to = None
    /\ report = << >>
    /\ outcome = NotRun

HeaderNew ==
    /\ pc = "header"
    /\ LET buf == SubSeq(video, pos + 1, pos + 4)
       IN  IF header_sync(buf)
           THEN /\ header' = Some(MpegtsHeader_new(buf))
                /\ outcome' = outcome
           ELSE /\ header' = None
                /\ outcome' = [outcome EXCEPT !.hash = "panic"]
    /\ pos' = pos + 4
    /\ pc' = "done"
    /\ UNCHANGED <<video, clip, hasher, prev_segment_offset, segments,
                   hashes, cut_from, cut_to, report>>

HeaderNext == HeaderNew

HeaderSpec == HeaderInit /\ [][HeaderNext]_vars

(***************************************************************************)
(* Properties                                                              *)
(***************************************************************************)
\* the video was scanned into the index `hashes`
Hashed == outcome.hash = "ok"

\* match got past the scan of the clip and the segment count, to the lookup
LookedUp == pc = "done" /\ outcome.match \in {"ok", "panic"} /\ Len(segments) = 1

\* match printed the index position i as a candidate
Reported(i) ==
    \E j \in 1..Len(report) :
        report[j].kind = "current" /\ report[j].from = hashes_at(i).offset

\* the bytes of the video that segment i of the index spans
span_bytes(i) == Bytes(video, hashes_at(i).offset, span_end(i))

IndexPositions == 0..(Len(hashes) - 1)

\* C1: a clip cut verbatim as the bytes [s[k].offset, s[k+1].offset) of the
\* video is matched: match ends normally and reports position k, for every
\* k with k+1 < n, k = 0 included.
C1_MatchCorrectness ==
    \A k \in IndexPositions :
        ( /\ pc = "done" /\ Hashed /\ outcome.cut = "ok"
          /\ k + 1 < Len(hashes)
          /\ clip = Bytes(video, hashes_at(k).offset, hashes_at(k + 1).offset) )
        => (outcome.match = "ok" /\ Reported(k))

\* C2: when two or more index positions carry the needle's hash, every
\* reported candidate spans bytes of the video identical to the clip.
C2_Disambiguation ==
    (LookedUp /\ Len(hash_matches(segments[1].hash, 0)) >= 2)
    => \A i \in IndexPositions : Reported(i) => span_bytes(i) = clip

\* C3: the segments of a scanned file cover [0, file length) exactly: the
\* first offset is 0, the offsets increase and none lies past the end.
C3_Coverage ==
    Hashed =>
        /\ hashes_at(0).offset = 0
        /\ \A i \in IndexPositions :
              /\ i + 1 < Len(hashes) => hashes_at(i).offset < hashes_at(i + 1).offset
              /\ hashes_at(i).offset <= Len(video)

\* C4: the scan of a file in which no PAT-start packet was found ends
\* successfully with exactly one segment, at offset 0.
C4_AtLeastOneSegment ==
    (pc = "cut" /\ prev_segment_offset = None)
    => (Hashed /\ Len(hashes) = 1 /\ hashes_at(0).offset = 0)

\* C5: the offsets of the segments do_hash has pushed, and of the index it
\* returned, are strictly increasing in stream order.
StrictlyIncreasing(segs) ==
    \A i \in 1..(Len(segs) - 1) : segs[i].offset < segs[i + 1].offset

C5_Monotonicity == StrictlyIncreasing(segments) /\ StrictlyIncreasing(hashes)

\* C5 witness: a scan of a video with garbage in front has returned two or
\* more segments, the first of them off the packet grid.
C5_Witness ==
    /\ Hashed /\ Len(hashes) >= 2
    /\ hashes_at(0).offset % PACKET_SIZE # 0

\* C6: a successful cut writes exactly to - from bytes (file length - from
\* without --to), the bytes of the source in that range.
C6_CutCorrectness ==
    outcome.cut = "ok" =>
        IF is_some(cut_to)
        THEN /\ Len(clip) = unwrap(cut_to) - cut_from
             /\ clip = SubSeq(video, cut_from + 1, unwrap(cut_to))
        ELSE /\ Len(clip) = Len(video) - cut_from
             /\ clip = SubSeq(video, cut_from + 1, Len(video))

\* C7: a cut whose end offset is smaller than its start offset fails fatally.
C7_CutBackwardsFails ==
    (outcome.cut # "none" /\ is_some(cut_to) /\ unwrap(cut_to) < cut_from)
    => outcome.cut = "panic"

\* C8: a cut that reaches past the end of the source does not end normally.
C8_CutPastEofFails ==
    ( /\ outcome.cut # "none"
      /\ \/ is_some(cut_to) /\ Len(video) < unwrap(cut_to)
         \/ ~is_some(cut_to) /\ Len(video) < cut_from )
    => outcome.cut # "ok"

\* C9: when the scan of the clip returns more than one segment, match
\* panics and prints nothing.
C9_NeedleBoundaryCheck ==
    [][ (pc = "clip" /\ scan_case(clip) = "eof" /\ Len(eof_segments) > 1)
        => (outcome'.match = "panic" /\ report' = << >> /\ pc' = "done") ]_vars

\* C9 witness: match has panicked on a clip of two or more segments.
C9_Witness ==
    /\ pc = "done" /\ outcome.match = "panic"
    /\ Len(segments) > 1 /\ report = << >>

\* the lines the report owes to the candidate at position i, numbered c
ExpectedLines(i, c) ==
    LET n == Len(hashes)
    IN  (IF i > 0
         THEN <<Line(c, "previous", hashes_at(i - 1).offset, Some(hashes_at(i).offset))>>
         ELSE << >>)
        \o (IF i < n - 1
            THEN <<Line(c, "current", hashes_at(i).offset, Some(hashes_at(i + 1).offset))>>
            ELSE <<Line(c, "current", hashes_at(i).offset, None)>>)
        \o (IF i < n - 2
            THEN <<Line(c, "next", hashes_at(i + 1).offset, Some(hashes_at(i + 2).offset))>>
            ELSE IF i = n - 2
            THEN <<Line(c, "next", hashes_at(i + 1).offset, None)>>
            ELSE << >>)

RECURSIVE ExpectedReport(_, _)
ExpectedReport(result, c) ==
    IF result = << >> THEN << >>
    ELSE ExpectedLines(Head(result), c) \o ExpectedReport(Tail(result), c + 1)

\* C10: for every index of n >= 1 segments, match ends normally and prints
\* for each surviving candidate its previous, current and next ranges.
C10_ReportRanges ==
    (LookedUp /\ candidates_of(segments[1].hash) # << >>)
    => /\ outcome.match = "ok"
       /\ report = ExpectedReport(candidates_of(segments[1].hash), 1)


\* the 13-bit PID and the start flag in the header bytes at position p of f
pid_at(f, p)   == (f[p + 2] % 32) * 256 + f[p + 3]
start_at(f, p) == (f[p + 2] \div 64) % 2 = 1
pat_start_at(f, p) == f[p + 1] = SYNC_BYTE /\ pid_at(f, p) = 0 /\ start_at(f, p)

\* f is a run of whole 188-byte packets, each beginning with the sync byte
Aligned(f) ==
    /\ Len(f) % PACKET_SIZE = 0
    /\ \A i \in 0..(Len(f) \div PACKET_SIZE - 1) : f[PACKET_SIZE * i + 1] = SYNC_BYTE

\* the packet indices of the PAT-start packets of an aligned f
PatIndices(f) ==
    {i \in 0..(Len(f) \div PACKET_SIZE - 1) : pat_start_at(f, PACKET_SIZE * i)}

\* C11: the scan of an aligned stream whose PAT-start packets are at the
\* packet indices i1 < ... < im, m >= 1, returns exactly m segments, with
\* the offsets 188*i1, ..., 188*im in that order.
C11_AlignedSegmentation ==
    (outcome.hash # "none" /\ Aligned(video) /\ PatIndices(video) # {})
    => /\ Hashed
       /\ Len(hashes) = Cardinality(PatIndices(video))
       /\ \A j \in 1..Len(hashes) :
             /\ hashes[j].offset \div PACKET_SIZE \in PatIndices(video)
             /\ hashes[j].offset % PACKET_SIZE = 0
             /\ Cardinality({i \in PatIndices(video) : PACKET_SIZE * i < hashes[j].offset}) = j - 1

\* C11 witness: an aligned stream of three packets with PAT-start packets at
\* the indices 1 and 2 was scanned into two segments.
C11_Witness ==
    /\ Hashed /\ Aligned(video) /\ PatIndices(video) = {1, 2}
    /\ Len(hashes) = 2 /\ hashes[1].offset = 188 /\ hashes[2].offset = 376


\* bit k of the 24 low header bits of the bytes b, k counted from the least
\* significant bit of the 32-bit header
header_bit(b, k) == (header_low24(b) \div 2^k) % 2

HeaderDone == pc = "done" /\ video \in HeaderInputs

\* C19 as stated: after MpegtsHeader::new on 4 bytes that begin with 0x47,
\* 4 bytes are consumed, is_start is bit 22 counted from the most
\* significant bit (bit 31 - 22 = 9 from the least significant one) and pid
\* is the 13-bit field at bits 8-20; any other first byte panics.
C19_HeaderDecoding_MsbNumbering ==
    HeaderDone =>
        IF video[1] = SYNC_BYTE
        THEN /\ pos = 4 /\ is_some(header) /\ outcome.hash = "none"
             /\ unwrap(header).is_start = (header_bit(video, 31 - 22) = 1)
             /\ unwrap(header).pid = (header_low24(video) \div 2^8) % 2^13
             /\ unwrap(header).pid \in 0..8191
        ELSE header = None /\ outcome.hash = "panic"

\* C19 amended: as above, with is_start bit 22 counted from the least
\* significant bit of the header (mask 0x400000).
C19_HeaderDecoding ==
    HeaderDone =>
        IF video[1] = SYNC_BYTE
        THEN /\ pos = 4 /\ is_some(header) /\ outcome.hash = "none"
             /\ unwrap(header).is_start = (header_bit(video, 22) = 1)
             /\ unwrap(header).pid = (header_low24(video) \div 2^8) % 2^13
             /\ unwrap(header).pid \in 0..8191
        ELSE header = None /\ outcome.hash = "panic"

\* C19 witness: the header 47 5f ff .. was decoded to the start flag and the
\* largest PID.
C19_Witness ==
    /\ HeaderDone /\ video[1] = SYNC_BYTE /\ video[2] = 95 /\ video[3] = 255
    /\ header = Some([is_start |-> TRUE, pid |-> 8191])


\* the second scan of the same bytes (the clip is the whole video) is about
\* to return
SecondScanEnds == pc = "clip" /\ outcome.cut = "ok" /\ clip = video /\ ScanEnds(clip)

LookupStarts ==
    pc = "clip" /\ scan_case(clip) = "eof" /\ Len(eof_segments) = 1 /\ index_exists

\* the index positions that carry the hash of the scanned clip
needle_hash_positions == hash_matches(eof_segments[1].hash, 0)

next_sync(f, p) ==
    IF \E q \in p..(Len(f) - 1) : f[q + 1] = SYNC_BYTE
    THEN CHOOSE q \in p..(Len(f) - 1) :
             f[q + 1] = SYNC_BYTE /\ \A r \in p..(q - 1) : f[r + 1] # SYNC_BYTE
    ELSE Len(f)

\* the digest h extended by the PIDs of the packets found from position p on,
\* each 188 bytes after the one before, that begin before position end
RECURSIVE span_digest(_, _, _, _)
span_digest(f, p, end, h) ==
    LET q == next_sync(f, p)
    IN  IF q >= end \/ q + 4 > Len(f) THEN h
        ELSE span_digest(f, q + PACKET_SIZE, end, write_u16(h, pid_at(f, q)))

\* C14: the hash of every segment of the index is the digest of exactly the
\* PIDs of the packets decoded in [offset, next offset), the boundary packet
\* first; no packet before the segment's offset contributes.
C14_SegmentHashContent ==
    (pc = "cut" /\ Hashed)
    => \A i \in IndexPositions :
          hashes_at(i).hash =
              span_digest(video, hashes_at(i).offset, span_end(i), DefaultHasher_new)


\* the file the running or last call of do_hash scans
scanned == IF pc \in {"hash", "cut"} THEN video ELSE clip

Scanning == pc \in {"hash", "clip"}

\* C15: whenever do_hash calls MpegtsHeader::new the cursor sits on the byte
\* found equal to 0x47, so the sync assertion never fails; every segment
\* offset is the position of a 0x47 byte whose header has pid 0 and the
\* start flag.
C15_SyncAssertionUnreachable ==
    /\ (Scanning /\ has_sync(scanned))
       => /\ sync_at(scanned) < Len(scanned)
          /\ scanned[sync_at(scanned) + 1] = SYNC_BYTE
          /\ scan_case(scanned) # "assert_panic"
    /\ \A j \in 1..Len(segments) : pat_start_at(scanned, segments[j].offset)
    /\ \A j \in 1..Len(hashes) : pat_start_at(video, hashes[j].offset)
    /\ is_some(prev_segment_offset) => pat_start_at(scanned, unwrap(prev_segment_offset))

\* C15 witness: with a segment open, the scan of the video has found the
\* next sync byte inside its chunk and rewinds to it.
C15_Witness ==
    /\ pc = "hash" /\ is_some(prev_segment_offset)
    /\ has_sync(video) /\ position(video) > 0
    /\ scan_case(video) = "packet"


\* the scan of the video found a PAT-start packet and has ended
ScannedWithPat == pc = "cut" /\ is_some(prev_segment_offset)

\* the scan ended with its open segment emitted as the last of the index
OpenSegmentEmitted ==
    Hashed /\ hashes[Len(hashes)].offset = unwrap(prev_segment_offset)

\* C16 as stated, its last part: the scan of a file with a PAT-start packet
\* and a length that is no multiple of 188 runs to completion with its open
\* segment emitted.
C16_TrailingPartialCompletes ==
    (ScannedWithPat /\ Len(video) % PACKET_SIZE # 0) => OpenSegmentEmitted

\* every iteration moves the cursor forward: by the whole chunk when it holds
\* no sync byte, else to the position of the sync byte + 188
CursorMovesForward ==
    (Scanning /\ pc' = pc)
    => /\ pos' > pos
       /\ pos' = IF next_sync(scanned, pos) < pos + read_len(scanned)
                 THEN next_sync(scanned, pos) + PACKET_SIZE
                 ELSE pos + read_len(scanned)

\* the scan failed on the header read: the sync byte it found lies in the
\* last 3 bytes of the file
HeaderReadFailed ==
    /\ outcome.hash = "err" /\ hashes = << >>
    /\ next_sync(video, pos) < Len(video)
    /\ next_sync(video, pos) + 4 > Len(video)

\* C16 amended: every scan stops, each iteration moving the cursor forward;
\* the scan of a file with a PAT-start packet and a trailing partial packet
\* emits its open segment, unless the sync byte found last lies in the last
\* 3 bytes of the file, where the header read fails the scan.
C16_ScanTermination ==
    /\ (pc = "hash") ~> (pc = "cut" /\ outcome.hash \in {"ok", "err", "panic"})
    /\ [][CursorMovesForward]_vars
    /\ []((ScannedWithPat /\ Len(video) % PACKET_SIZE # 0)
          => (OpenSegmentEmitted \/ HeaderReadFailed))

\* C16 witness: the scan of a video with a PAT-start packet and a trailing
\* partial packet has ended with the open segment emitted.
C16_Witness ==
    /\ ScannedWithPat /\ Len(video) % PACKET_SIZE # 0 /\ Len(video) > PACKET_SIZE
    /\ OpenSegmentEmitted /\ pos > Len(video)


\* the position of the packet the iteration at hand decodes
decoded_at == next_sync(scanned, pos)

\* an iteration of the scan that decodes a packet and goes on
PacketStep ==
    /\ Scanning /\ pc' = pc
    /\ decoded_at < Min(pos + BUFFER_SIZE, Len(scanned))
    /\ pos' = decoded_at + PACKET_SIZE

\* C17: an iteration that decodes a packet opens a new segment at the
\* packet's position, and emits the segment open before with its hash, if
\* and only if the packet has pid 0 and the start flag; any other packet
\* (pid 0 without the flag, the flag with another pid) opens and emits
\* nothing; in both cases the packet's PID is written to the hasher.
C17_BoundaryRule ==
    [][ PacketStep =>
          LET pid      == pid_at(scanned, decoded_at)
              boundary == pid = 0 /\ start_at(scanned, decoded_at)
          IN  /\ (prev_segment_offset' # prev_segment_offset) <=> boundary
              /\ (segments' # segments) <=> (boundary /\ is_some(prev_segment_offset))
              /\ boundary =>
                    /\ prev_segment_offset' = Some(decoded_at)
                    /\ is_some(prev_segment_offset) =>
                          /\ segments' = Append(segments,
                                 [hash |-> finish(hasher),
                                  offset |-> unwrap(prev_segment_offset)])
                          /\ hasher' = write_u16(DefaultHasher_new, pid)
                    /\ ~is_some(prev_segment_offset) => hasher' = write_u16(hasher, pid)
              /\ ~boundary => hasher' = write_u16(hasher, pid) ]_vars

\* C17 witness: a PAT-start packet, a pid-0 packet without the start flag and
\* a start packet of pid 256 were scanned into one segment whose hash holds
\* the three PIDs.
C17_Witness ==
    /\ Hashed /\ video = Concat(<<"PAT_A", "PAT_CONT", "PES">>)
    /\ Len(hashes) = 1 /\ hashes[1].offset = 0
    /\ hashes[1].hash =
          finish(write_u16(write_u16(write_u16(DefaultHasher_new, 0), 0), 256))


\* the "current" lines of the report, one per candidate printed
is_current(line) == line.kind = "current"
current_lines == SelectSeq(report, is_current)

\* the index positions that carry the hash of the needle, in index order
needle_positions == hash_matches(segments[1].hash, 0)

InSeq(x, s) == \E j \in 1..Len(s) : s[j] = x

span_length(i) == span_end(i) - hashes_at(i).offset

\* C18: the candidates match reports are index positions that carry the
\* needle's hash, in ascending order and numbered 1, 2, ...; a position that
\* is the only one with the hash is reported; of several positions with the
\* hash, none whose span length differs from the needle's length is reported.
C18_CandidateSelection ==
    LookedUp =>
        /\ \A j \in 1..Len(current_lines) :
              /\ current_lines[j].n = j
              /\ \E i \in IndexPositions :
                    /\ InSeq(i, needle_positions)
                    /\ current_lines[j].from = hashes_at(i).offset
              /\ \A k \in 1..(j - 1) : current_lines[k].from < current_lines[j].from
        /\ Len(needle_positions) = 1
              => /\ Len(current_lines) = 1
                 /\ current_lines[1].from = hashes_at(needle_positions[1]).offset
        /\ Len(needle_positions) > 1
              => \A i \in IndexPositions :
                    (InSeq(i, needle_positions) /\ span_length(i) # Len(clip))
                    => ~Reported(i)

\* C18 witness: of two or more index positions with the needle's hash, match
\* has reported one and left out another, whose span length is not the
\* needle's length.
C18_Witness ==
    /\ LookedUp /\ Len(needle_positions) > 1
    /\ \E i \in IndexPositions : InSeq(i, needle_positions) /\ Reported(i)
    /\ \E i \in IndexPositions :
          /\ InSeq(i, needle_positions) /\ ~Reported(i)
          /\ span_length(i) # Len(clip)

=============================================================================
